---- MODULE Spec2Model ----
(***************************************************************************)
(* A model of the webhook notification service of the Sorosave SDK         *)
(* (src/webhook/index.ts): the registry of webhooks, the fan-out of a      *)
(* triggered event, the retry loop of one delivery, the delivery store,    *)
(* the notifications the service emits to its listeners, and the HMAC      *)
(* signature helpers.                                                      *)
(*                                                                         *)
(* JavaScript runs one callback at a time, so an action is one run of the  *)
(* event loop: the synchronous part of a call up to its first await that   *)
(* waits for I/O or a timer, together with the microtasks (promise         *)
(* continuations) that run before the next I/O callback.                   *)
(***************************************************************************)
EXTENDS Integers, Sequences, FiniteSets, TLC

VARIABLES
    webhooks,    \* Map<string, WebhookConfig>, in insertion order
    deliveries,  \* Map<string, WebhookDelivery>: entries [id, ref], ref a unit's object
    units,       \* the sendWebhook calls started so far, each with its delivery object
    events,      \* the triggerEvent calls made so far, each with its promise's state
    failures,    \* failed HTTP attempts so far (bounded by MaxFailures)
    thrown,      \* exceptions thrown by listeners so far (bounded by MaxThrows)
    sig,         \* one verifySignature call: its arguments and its outcome
    reg,         \* the last registry call as its caller and the listeners saw it
    batch,       \* a BatchBuilder: its fields, and the snapshot just taken of it
    route        \* a request to POST /webhooks/test or GET /webhooks/:id/deliveries

vars == <<webhooks, deliveries, units, events, failures, thrown, sig, reg, batch, route>>

----------------------------------------------------------------------------
(* Bounds of the model. *)

NumIds == 2

MaxWebhooks == 2

MaxEvents == 2

MaxFailures == 4

MaxDeliveries == 2

MaxThrows == 1

DigestLen == 2

BlockLen == 4

MaxOperations == 3

MaxOrder == 2

----------------------------------------------------------------------------
(* Program constants. *)

maxRetries == 3

retryDelays == <<1000, 5000, 15000>>

None == << >>

Some(x) == <<x>>

ListenerError == "listener error"

(* Inputs. *)

Ids == 1..NumIds

Types == {"payout", "other"}

\* the arguments of registerWebhook: url, events, secret
RegisterInputs ==
    {<<"https://example.com/hook", <<"payout", "payout">>, Some(<<"k">>)>>,
     <<"not-a-url", <<"payout">>, None>>,
     <<"https://example.com/hook", << >>, None>>}

(* What one HTTP call can come to: a response with a status, or fetch's   *)
(* promise rejected (a transport error, or the 30 s timeout: the code has *)
(* one path for both).                                                    *)
HttpOutcomes ==
    {[kind |-> "response", status |-> 200],
     [kind |-> "response", status |-> 500],
     [kind |-> "rejected", status |-> 0]}

\* the same, with a second status that is not ok
AttemptOutcomes == HttpOutcomes \cup {[kind |-> "response", status |-> 404]}

\* no HTTP call has come back yet
NoOutcome == [kind |-> "none", status |-> 0]

----------------------------------------------------------------------------
(* Helpers. *)

\* `${Date.now()}-${Math.random().toString(36).substr(2, 9)}`: a wall-clock
\* reading and a random suffix; nothing keeps two calls from the same value.
\* The result is any id. The ids are kept in one canonical naming: given the
\* ids `used` so far where the new one will be compared, the call returns one
\* of them again (a collision) or the smallest id not among them (all unused
\* ids are alike).
generateId(used) ==
    {i \in Ids : i \in used \/ (\A j \in Ids \ used : i <= j)}

\* Array.prototype.includes
includes(list, x) == \E i \in 1..Len(list) : list[i] = x

\* Map.prototype.has / get / set / delete, on a sequence of entries with an id
MapHas(map, id) == \E i \in 1..Len(map) : map[i].id = id

MapGet(map, id) == map[CHOOSE i \in 1..Len(map) : map[i].id = id]

MapSet(map, entry) ==
    IF MapHas(map, entry.id)
    THEN [i \in 1..Len(map) |-> IF map[i].id = entry.id THEN entry ELSE map[i]]
    ELSE Append(map, entry)

MapDelete(map, id) == SelectSeq(map, LAMBDA e : e.id # id)

\* new URL(url) succeeds
UrlParses(url) == url = "https://example.com/hook"

\* response.ok
ResponseOk(status) == status >= 200 /\ status <= 299

\* a message that does not say what the attempt came to
ErrorMessageGeneric(o) == "Delivery failed"

\* the message of the error executeDelivery throws for a failed attempt
\* (`HTTP ${response.status}: ${responseBody}` for a response that is not
\* ok, the message of fetch's error otherwise)
ErrorMessage(o) ==
    IF o.kind = "response"
    THEN IF o.status = 404 THEN "HTTP 404: body" ELSE "HTTP 500: body"
    ELSE "FetchError"

\* emit(n, ...) calls the listeners of n one after the other, in the caller's
\* stack: a listener that throws makes emit throw. Listeners are attached and
\* removed by the service's users at any time: whether an emit throws is the
\* environment's choice, taken from Throws.
Throws == IF thrown < MaxThrows THEN BOOLEAN ELSE {FALSE}

----------------------------------------------------------------------------
(* The signature helpers. A string is a sequence of characters; a Buffer  *)
(* is the sequence of the bytes of its UTF-8 encoding.                    *)

HexDigits ==
    <<"0", "1", "2", "3", "4", "5", "6", "7", "8", "9", "a", "b", "c", "d", "e", "f">>

Letters == <<"a", "b", "j", "k", "s", "h", "=", "x">>

\* a number for each byte, for the digest below; the byte of an ASCII
\* character is written as the character, "00" is the zero byte
Code(c) ==
    IF \E i \in 1..16 : HexDigits[i] = c
    THEN CHOOSE i \in 1..16 : HexDigits[i] = c
    ELSE IF \E i \in 1..8 : Letters[i] = c
    THEN 16 + (CHOOSE i \in 1..8 : Letters[i] = c)
    ELSE IF c = "00" THEN 0
    ELSE IF c = "C3" THEN 25
    ELSE 26

\* Buffer.from(string): the UTF-8 bytes; a character outside ASCII takes more
\* than one byte; "NUL" stands for the character U+0000
Utf8(c) ==
    IF c = "é" THEN <<"C3", "A9">>
    ELSE IF c = "NUL" THEN <<"00">>
    ELSE <<c>>

RECURSIVE BufferFrom(_)
BufferFrom(str) ==
    IF str = << >> THEN << >> ELSE Utf8(Head(str)) \o BufferFrom(Tail(str))

\* crypto.timingSafeEqual(a, b): throws a RangeError when the byte lengths differ
timingSafeEqual(a, b) ==
    IF Len(a) # Len(b) THEN "RangeError"
    ELSE IF a = b THEN "true" ELSE "false"

\* crypto.createHmac("sha256", secret).update(payload).digest("hex"): a keyed
\* digest of the UTF-8 bytes, written in DigestLen lower-case hex digits (64 in
\* the library); Mix is a stand-in for SHA-256's compression. HMAC brings the
\* key to the block length (BlockLen bytes here, 64 for SHA-256) first: a
\* longer key is replaced by its digest, and the key is then filled up with
\* zero bytes.
RECURSIVE Mix(_, _)
Mix(str, h) ==
    IF str = << >> THEN h
    ELSE Mix(Tail(str), (h * 31 + Code(Head(str))) % (16 ^ DigestLen))

Hex(n) == [i \in 1..DigestLen |-> HexDigits[((n \div (16 ^ (DigestLen - i))) % 16) + 1]]

ZeroPad(bytes) == bytes \o [i \in 1..(BlockLen - Len(bytes)) |-> "00"]

KeyBlock(key) == IF Len(key) > BlockLen THEN ZeroPad(Hex(Mix(key, 5))) ELSE ZeroPad(key)

HmacSha256Hex(payload, secret) ==
    Hex(Mix(BufferFrom(payload), Mix(KeyBlock(BufferFrom(secret)), 7) + 3))

generateSignature(payload, secret) ==
    <<"s", "h", "a", "2", "5", "6", "=">> \o HmacSha256Hex(payload, secret)

verifySignature(payload, signature, secret) ==
    LET expected == generateSignature(payload, secret) IN
    timingSafeEqual(BufferFrom(signature), BufferFrom(expected))

(* The arguments verifySignature is called with. *)
Payloads == {<<"a">>, <<"a", "b">>}

Keys == {<<"k">>, <<"j">>, <<"k", "NUL">>}

Front(str) == SubSeq(str, 1, Len(str) - 1)

Signatures ==
    {<< >>, <<"x">>}
    \cup UNION {
           LET good == generateSignature(p, k) IN
           {good,
            Front(good),
            good \o <<"0">>,
            Front(good) \o <<"é">>,
            Front(good) \o <<"x">>}
         : p \in Payloads, k \in Keys}

----------------------------------------------------------------------------
(* The initial state: a service just constructed. *)

SigIdle == [payload |-> << >>, signature |-> << >>, secret |-> << >>, result |-> "idle"]

\* no registry call watched yet
RegIdle ==
    [call |-> [name |-> "none", id |-> 0, url |-> "", events |-> << >>, active |-> FALSE],
     result |-> [kind |-> "none", id |-> 0, message |-> ""],
     status |-> 0,
     emitted |-> << >>,
     live |-> << >>]

\* new BatchBuilder(); no snapshot taken
BatchIdle ==
    [operations |-> << >>, insertCursor |-> 0, snapshot |-> << >>, taken |-> FALSE]

\* no request to the two routes yet
RouteIdle ==
    [name |-> "none", pc |-> "idle", id |-> 0, event |-> 0, before |-> << >>,
     status |-> 0, error |-> "", data |-> << >>]

Init ==
    /\ webhooks = << >>
    /\ deliveries = << >>
    /\ units = << >>
    /\ events = << >>
    /\ failures = 0
    /\ thrown = 0
    /\ sig = SigIdle
    /\ reg = RegIdle
    /\ batch = BatchIdle
    /\ route = RouteIdle


----------------------------------------------------------------------------
(* The registry. A call that throws after it has changed the registry     *)
(* (a listener's exception leaving emit) keeps the change.                *)

Bump(b) == IF b THEN thrown + 1 ELSE thrown

\* the ids a new webhook's, event's or delivery's id is compared with
WebhookIds == {webhooks[i].id : i \in 1..Len(webhooks)}
                  \cup {units[u].webhookId : u \in 1..Len(units)}

EventIds == {events[e].id : e \in 1..Len(events)}

DeliveryIds == {deliveries[i].id : i \in 1..Len(deliveries)}

(* A registration that does not look at the event list. *)
registerWebhookUnchecked(url, evs, secret, throws) ==
    /\ Len(webhooks) < MaxWebhooks
    /\ IF ~UrlParses(url)
       THEN UNCHANGED <<webhooks, thrown>>
       ELSE \E id \in generateId(WebhookIds) :
            /\ webhooks' = MapSet(webhooks,
                   [id |-> id, url |-> url, events |-> evs, secret |-> secret,
                    active |-> TRUE])
            /\ thrown' = Bump(throws)
    /\ UNCHANGED <<deliveries, units, events, failures, sig, batch, route>>

registerWebhook(url, evs, secret, throws) ==
    /\ Len(webhooks) < MaxWebhooks
    /\ IF ~UrlParses(url) \/ Len(evs) = 0
       THEN UNCHANGED <<webhooks, thrown>>
       ELSE \E id \in generateId(WebhookIds) :
            /\ webhooks' = MapSet(webhooks,
                   [id |-> id, url |-> url, events |-> evs, secret |-> secret,
                    active |-> TRUE])
            /\ thrown' = Bump(throws)
    /\ UNCHANGED <<deliveries, units, events, failures, sig, batch, route>>

(* A deletion that cascades to the deliveries of the webhook and fails    *)
(* those still under way.                                                 *)
deleteWebhookCascade(id, throws) ==
    /\ LET deleted == MapHas(webhooks, id) IN
       /\ webhooks' = MapDelete(webhooks, id)
       /\ thrown' = Bump(deleted /\ throws)
    /\ units' = [u \in 1..Len(units) |->
                    IF units[u].webhookId = id /\ units[u].status = "pending"
                    THEN [units[u] EXCEPT !.status = "failed"]
                    ELSE units[u]]
    /\ UNCHANGED <<deliveries, events, failures, sig, batch, route>>

deleteWebhook(id, throws) ==
    /\ LET deleted == MapHas(webhooks, id) IN
       /\ webhooks' = MapDelete(webhooks, id)
       /\ thrown' = Bump(deleted /\ throws)
    /\ UNCHANGED <<deliveries, units, events, failures, sig, batch, route>>

updateWebhookStatus(id, active, throws) ==
    /\ IF MapHas(webhooks, id)
       THEN /\ webhooks' = MapSet(webhooks, [MapGet(webhooks, id) EXCEPT !.active = active])
            /\ thrown' = Bump(throws)
       ELSE UNCHANGED <<webhooks, thrown>>
    /\ UNCHANGED <<deliveries, units, events, failures, sig, batch, route>>

----------------------------------------------------------------------------
(* The registry calls as their callers and the listeners see them: the    *)
(* value returned or the error thrown, and the notifications emitted      *)
(* during the call. reg.live lists the subscriptions that register has    *)
(* returned to a caller and that no delete has named since.               *)

\* the arguments of registerWebhook when the registry is watched: two valid
\* registrations that differ in their event list and secret, and the invalid ones
RegistryInputs ==
    RegisterInputs \cup {<<"https://example.com/hook", <<"other">>, None>>}

\* the bodies of POST /webhooks: those, one without url, one whose events is
\* not an array
Bodies ==
    {[url |-> in[1], events |-> in[2], secret |-> in[3], isArray |-> TRUE] :
        in \in RegistryInputs}
    \cup {[url |-> "", events |-> <<"payout">>, secret |-> None, isArray |-> TRUE],
          [url |-> "https://example.com/hook", events |-> << >>, secret |-> None,
           isArray |-> FALSE]}

Returned(id) == [kind |-> "value", id |-> id, message |-> ""]

ReturnedBool(b) == [kind |-> IF b THEN "true" ELSE "false", id |-> 0, message |-> ""]

ReturnedAbsent == [kind |-> "absent", id |-> 0, message |-> ""]

Rejected(message) == [kind |-> "error", id |-> 0, message |-> message]

Notification(name, id) == [name |-> name, id |-> id]

\* a call of registerWebhook; name and the two statuses tell a direct call
\* (no HTTP status) from one made by the router
Registered(url, evs, secret, throws, name, created, failed) ==
    /\ Len(reg.live) < MaxWebhooks
    /\ registerWebhook(url, evs, secret, throws)
    /\ LET call == [name |-> name, id |-> 0, url |-> url, events |-> evs, active |-> TRUE]
           seen == [reg EXCEPT !.call = call, !.emitted = << >>, !.status = failed]
       IN
       IF ~UrlParses(url)
       THEN reg' = [seen EXCEPT !.result = Rejected("Invalid webhook URL")]
       ELSE IF Len(evs) = 0
       THEN reg' = [seen EXCEPT !.result = Rejected("At least one event type is required")]
       ELSE \E id \in generateId(WebhookIds) :
            /\ webhooks' = MapSet(webhooks,
                   [id |-> id, url |-> url, events |-> evs, secret |-> secret,
                    active |-> TRUE])
            /\ reg' = IF throws
                      THEN [seen EXCEPT
                               !.emitted = <<Notification("webhook:registered", id)>>,
                               !.result = Rejected(ListenerError)]
                      ELSE [seen EXCEPT
                               !.emitted = <<Notification("webhook:registered", id)>>,
                               !.result = Returned(id),
                               !.status = created,
                               !.live = Append(@, [id |-> id, url |-> url, events |-> evs,
                                                   secret |-> secret])]

CallRegister(url, evs, secret, throws) ==
    Registered(url, evs, secret, throws, "register", 0, 0)

\* router.post("/"): 400 without a call when url is missing or events is not
\* an array, else 201 with the webhook or 400 with the error's message
PostWebhooks(body, throws) ==
    IF body.url = "" \/ ~body.isArray
    THEN /\ reg' = [reg EXCEPT
                       !.call = [name |-> "POST /webhooks", id |-> 0, url |-> body.url,
                                 events |-> body.events, active |-> TRUE],
                       !.result = [kind |-> "none", id |-> 0,
                                   message |-> "Missing required fields: url, events"],
                       !.emitted = << >>,
                       !.status = 400]
         /\ UNCHANGED <<webhooks, deliveries, units, events, failures, thrown, sig, batch, route>>
    ELSE Registered(body.url, body.events, body.secret, throws, "POST /webhooks", 201, 400)

CallDelete(id, throws) ==
    /\ deleteWebhook(id, throws)
    /\ LET deleted == MapHas(webhooks, id) IN
       reg' = [reg EXCEPT
                  !.call = [name |-> "delete", id |-> id, url |-> "", events |-> << >>,
                            active |-> FALSE],
                  !.result = IF deleted /\ throws THEN Rejected(ListenerError)
                             ELSE ReturnedBool(deleted),
                  !.emitted = IF deleted THEN <<Notification("webhook:deleted", id)>>
                              ELSE << >>,
                  !.status = 0,
                  !.live = SelectSeq(@, LAMBDA r : r.id # id)]

CallUpdateStatus(id, active, throws) ==
    /\ updateWebhookStatus(id, active, throws)
    /\ LET known == MapHas(webhooks, id) IN
       reg' = [reg EXCEPT
                  !.call = [name |-> "setActive", id |-> id, url |-> "", events |-> << >>,
                            active |-> active],
                  !.result = IF ~known THEN ReturnedAbsent
                             ELSE IF throws THEN Rejected(ListenerError)
                             ELSE Returned(id),
                  !.emitted = IF known THEN <<Notification("webhook:updated", id)>>
                              ELSE << >>,
                  !.status = 0]

----------------------------------------------------------------------------
(* One delivery attempt (executeDelivery), given what the HTTP call comes *)
(* to: the response it returns, or the error it throws.                   *)

executeDelivery(o) ==
    IF o.kind = "response"
    THEN IF ~ResponseOk(o.status)
         THEN [thrown |-> TRUE, message |-> ErrorMessage(o), status |-> o.status]
         ELSE [thrown |-> FALSE, message |-> "", status |-> o.status]
    ELSE [thrown |-> TRUE, message |-> ErrorMessage(o), status |-> 0]

(* The request of one attempt (executeDelivery, up to the fetch call): the *)
(* body is the JSON text of the event, written here as a string for each  *)
(* event type; the signature header is added under `if (webhook.secret)`, *)
(* which an absent secret and the empty string both fail.                 *)
Payload(type) == IF type = "payout" THEN <<"a">> ELSE <<"a", "b">>

Truthy(secret) == secret # None /\ secret[1] # << >>

NoRequest == [url |-> "", body |-> << >>, signature |-> None]

\* generateSignature on the bodies and secrets that occur, worked out once
Secrets == {<<"k">>, << >>}

Signature ==
    [body \in {Payload(type) : type \in Types \cup {"test"}}, secret \in Secrets |->
        generateSignature(body, secret)]

(* A request signed whenever a secret was given, the empty one too. *)
RequestSignedIfGiven(url, secret, type) ==
    [url |-> url, body |-> Payload(type),
     signature |-> IF secret # None
                   THEN Some(Signature[Payload(type), secret[1]])
                   ELSE None]

Request(url, secret, type) ==
    [url |-> url, body |-> Payload(type),
     signature |-> IF Truthy(secret)
                   THEN Some(Signature[Payload(type), secret[1]])
                   ELSE None]

(* A dispatcher that takes the webhooks one after the other would leave a  *)
(* delivery waiting for its turn, its HTTP call not yet made.              *)
NewUnitQueued(w, e, event, id) ==
    [event |-> e, url |-> w.url, secret |-> w.secret,
     id |-> id, webhookId |-> w.id, eventId |-> event.id,
     status |-> "pending", attempts |-> 0, responseStatus |-> 0,
     error |-> "", completedAt |-> FALSE,
     attempt |-> 0, pc |-> "queued", timer |-> 0, waited |-> << >>,
     calls |-> 0, failedCalls |-> 0, notified |-> << >>,
     type |-> event.type, request |-> NoRequest, outcome |-> NoOutcome]

(* The delivery object and the call's position, as sendWebhook leaves them *)
(* when it first waits: the record is created pending, the loop's first   *)
(* pass has set attempts to 1 and the first HTTP call is in flight.       *)
NewUnit(w, e, event, id) ==
    [event |-> e, url |-> w.url, secret |-> w.secret,
     id |-> id, webhookId |-> w.id, eventId |-> event.id,
     status |-> "pending", attempts |-> 1, responseStatus |-> 0,
     error |-> "", completedAt |-> FALSE,
     attempt |-> 0, pc |-> "fetch", timer |-> 0, waited |-> << >>,
     calls |-> 1, failedCalls |-> 0, notified |-> << >>,
     type |-> event.type, request |-> Request(w.url, w.secret, event.type),
     outcome |-> NoOutcome]

(* A catch block that gives up one retry early. *)
CatchEarly(d, message, throwsF) ==
    LET e == [d EXCEPT !.error = message] IN
    IF d.attempt < maxRetries - 1
    THEN [e EXCEPT !.pc = "delay", !.timer = retryDelays[d.attempt + 1]]
    ELSE LET f == [e EXCEPT !.status = "failed", !.completedAt = TRUE,
                            !.notified = Append(@, "delivery:failed")] IN
         IF throwsF
         THEN [f EXCEPT !.pc = "rejected"]
         ELSE [f EXCEPT !.pc = "done"]

(* The catch block of sendWebhook's loop; throwsF: the listener of        *)
(* delivery:failed throws.                                                *)
Catch(d, message, throwsF) ==
    LET e == [d EXCEPT !.error = message] IN
    IF d.attempt < maxRetries
    THEN [e EXCEPT !.pc = "delay", !.timer = retryDelays[d.attempt + 1]]
    ELSE LET f == [e EXCEPT !.status = "failed", !.completedAt = TRUE,
                            !.notified = Append(@, "delivery:failed")] IN
         IF throwsF
         THEN [f EXCEPT !.pc = "rejected"]
         ELSE [f EXCEPT !.pc = "done"]

(* A success branch that leaves the completion time unset. *)
AfterAttemptNoStamp(d0, o, throwsS, throwsF) ==
    LET r == executeDelivery(o)
        d == [d0 EXCEPT !.outcome = o]
    IN
    IF ~r.thrown
    THEN LET s == [d EXCEPT !.status = "success", !.responseStatus = r.status,
                            !.notified = Append(@, "delivery:success")] IN
         IF throwsS
         THEN Catch(s, ListenerError, throwsF)
         ELSE [s EXCEPT !.pc = "done"]
    ELSE Catch([d EXCEPT !.failedCalls = @ + 1], r.message, throwsF)

(* The rest of one pass of the loop, from the outcome of its HTTP call;   *)
(* throwsS: the listener of delivery:success throws.                      *)
AfterAttempt(d0, o, throwsS, throwsF) ==
    LET r == executeDelivery(o)
        d == [d0 EXCEPT !.outcome = o]
    IN
    IF ~r.thrown
    THEN LET s == [d EXCEPT !.status = "success", !.responseStatus = r.status,
                            !.completedAt = TRUE,
                            !.notified = Append(@, "delivery:success")] IN
         IF throwsS
         THEN Catch(s, ListenerError, throwsF)
         ELSE [s EXCEPT !.pc = "done"]
    ELSE Catch([d EXCEPT !.failedCalls = @ + 1], r.message, throwsF)

(* The listeners' exceptions in that pass. *)
ThrownIn(d, o, throwsS, throwsF) ==
    LET ok == ~executeDelivery(o).thrown
        caught == ~ok \/ throwsS
    IN  (IF ok /\ throwsS THEN 1 ELSE 0)
        + (IF caught /\ d.attempt >= maxRetries /\ throwsF THEN 1 ELSE 0)

(* A loop that takes the same pass again. *)
NextAttemptAgain(d) ==
    [d EXCEPT !.attempts = d.attempt + 2, !.pc = "fetch",
              !.timer = 0, !.waited = Append(@, d.timer), !.calls = @ + 1,
              !.request = Request(d.url, d.secret, d.type)]

(* The next pass of the loop, when the backoff timer fires. *)
NextAttempt(d) ==
    [d EXCEPT !.attempt = @ + 1, !.attempts = d.attempt + 2, !.pc = "fetch",
              !.timer = 0, !.waited = Append(@, d.timer), !.calls = @ + 1,
              !.request = Request(d.url, d.secret, d.type)]

(* Promise.all over an event's sendWebhook calls, and the await on it: it *)
(* rejects with the first call that rejects, and resolves when all have   *)
(* returned.                                                              *)
UnitsOf(us, e) == {u \in 1..Len(us) : us[u].event = e}

Settled(ev, e, us) ==
    IF ev.state # "pending" THEN ev
    ELSE IF \E u \in UnitsOf(us, e) : us[u].pc = "rejected"
    THEN [ev EXCEPT !.state = "rejected"]
    ELSE IF \A u \in UnitsOf(us, e) : us[u].pc = "done"
    THEN [ev EXCEPT !.state = "resolved"]
    ELSE ev

(* getDeliveries(webhookId?): the records of the store in insertion order, *)
(* those of one webhook when an id is given.                              *)
getDeliveries(map, us, webhookId) ==
    LET all == [i \in 1..Len(map) |-> us[map[i].ref]] IN
    IF webhookId # None
    THEN SelectSeq(all, LAMBDA d : d.webhookId = webhookId[1])
    ELSE all

----------------------------------------------------------------------------
(* The dispatcher. *)

RECURSIVE SetAll(_, _, _, _)
SetAll(map, ids, base, k) ==
    IF k > Len(ids) THEN map
    ELSE SetAll(MapSet(map, [id |-> ids[k], ref |-> base + k]), ids, base, k + 1)

\* the ids that n calls of generateId in a row can return
GeneratedIds(n, used) ==
    {ids \in [1..n -> Ids] :
        \A k \in 1..n : ids[k] \in generateId(used \cup {ids[j] : j \in 1..(k - 1)})}

(* A filter that forgets the active flag. *)
MatchingAll(hooks, type) == SelectSeq(hooks, LAMBDA w : includes(w.events, type))

Matching(hooks, type) == SelectSeq(hooks, LAMBDA w : w.active /\ includes(w.events, type))

\* the call on a service whose registry is hooks
Triggered(hooks, type, throws) ==
    /\ Len(events) < MaxEvents
    /\ \E eid \in generateId(EventIds) :
       LET e == Len(events) + 1
           event == [type |-> type, id |-> eid, state |-> "pending"]
       IN
       IF throws
       THEN /\ events' = Append(events, [event EXCEPT !.state = "rejected"])
            /\ thrown' = thrown + 1
            /\ UNCHANGED <<units, deliveries>>
       ELSE LET matchingWebhooks == Matching(hooks, type)
                n == Len(matchingWebhooks)
            IN
            /\ Len(units) + n <= MaxDeliveries
            /\ \E ids \in GeneratedIds(n, DeliveryIds) :
               /\ units' = units \o [k \in 1..n |-> NewUnit(matchingWebhooks[k], e, event, ids[k])]
               /\ deliveries' = SetAll(deliveries, ids, Len(units), 1)
               /\ events' = Append(events, Settled(event, e, units'))
            /\ UNCHANGED thrown
    /\ UNCHANGED <<failures, sig, reg, batch>>

triggerEvent(type, throws) ==
    Triggered(webhooks, type, throws) /\ UNCHANGED <<webhooks, route>>

----------------------------------------------------------------------------
(* One delivery: the HTTP call of unit u comes to o; the backoff timer of *)
(* unit u fires.                                                          *)

\* res.status(status).json(...)
Answer(r, status, error) ==
    [r EXCEPT !.pc = "responded", !.status = status, !.error = error]

(* The rest of POST /webhooks/test, which runs when the promise of its    *)
(* triggerEvent settles (evs: the events after the step): the temporary   *)
(* webhook is deleted and the route answers 200; when the promise is      *)
(* rejected, or the listener of webhook:deleted throws (throwsD), the     *)
(* catch block answers 400.                                               *)
Resumes(evs) == route.pc = "waiting" /\ evs[route.event].state # "pending"

Deletes(evs) == Resumes(evs) /\ evs[route.event].state = "resolved"

AfterTrigger(evs, throwsD) ==
    IF ~Resumes(evs)
    THEN UNCHANGED <<webhooks, route>>
    ELSE IF ~Deletes(evs)
    THEN /\ route' = Answer(route, 400, ListenerError)
         /\ UNCHANGED webhooks
    ELSE /\ webhooks' = MapDelete(webhooks, route.id)
         /\ route' = IF throwsD THEN Answer(route, 400, ListenerError)
                     ELSE Answer(route, 200, "")

HttpDone(u, o, throwsS, throwsF) ==
    /\ u \in 1..Len(units)
    /\ units[u].pc = "fetch"
    /\ LET us == [units EXCEPT ![u] = AfterAttempt(units[u], o, throwsS, throwsF)]
           evs == [e \in 1..Len(events) |-> Settled(events[e], e, us)]
           failed == executeDelivery(o).thrown
           n == ThrownIn(units[u], o, throwsS, throwsF)
       IN
       /\ failed => failures < MaxFailures
       /\ \E throwsD \in {FALSE} \cup {t \in Throws : Deletes(evs) /\ MapHas(webhooks, route.id)} :
          LET m == IF throwsD THEN 1 ELSE 0 IN
          /\ thrown + n + m <= MaxThrows
          /\ thrown' = thrown + n + m
          /\ AfterTrigger(evs, throwsD)
       /\ failures' = IF failed THEN failures + 1 ELSE failures
       /\ units' = us
       /\ events' = evs
    /\ UNCHANGED <<deliveries, sig, reg, batch>>

(* A loop that looks its webhook up again before each retry and stops     *)
(* when it is no longer registered and active.                            *)
TimerFiredIfActive(u) ==
    /\ u \in 1..Len(units)
    /\ units[u].pc = "delay"
    /\ MapHas(webhooks, units[u].webhookId)
    /\ MapGet(webhooks, units[u].webhookId).active
    /\ units' = [units EXCEPT ![u] = NextAttempt(units[u])]
    /\ UNCHANGED <<webhooks, deliveries, events, failures, thrown, sig, reg, batch, route>>

TimerFired(u) ==
    /\ u \in 1..Len(units)
    /\ units[u].pc = "delay"
    /\ units' = [units EXCEPT ![u] = NextAttempt(units[u])]
    /\ UNCHANGED <<webhooks, deliveries, events, failures, thrown, sig, reg, batch, route>>

----------------------------------------------------------------------------

Next ==
    \/ \E in \in RegisterInputs :
          registerWebhook(in[1], in[2], in[3], FALSE) /\ UNCHANGED reg
    \/ \E id \in Ids : deleteWebhook(id, FALSE) /\ UNCHANGED reg
    \/ \E id \in Ids, active \in BOOLEAN :
          updateWebhookStatus(id, active, FALSE) /\ UNCHANGED reg
    \/ \E type \in Types, throws \in Throws : triggerEvent(type, throws)
    \/ \E u \in 1..MaxDeliveries, o \in HttpOutcomes, throwsS \in Throws, throwsF \in Throws :
          HttpDone(u, o, throwsS, throwsF)
    \/ \E u \in 1..MaxDeliveries : TimerFired(u)

Spec == Init /\ [][Next]_vars

----------------------------------------------------------------------------
(* The deliveries on their own: webhooks registered with a secret, with   *)
(* none and with the empty string, and destinations that answer 200, 404  *)
(* or 500 or do not answer.                                               *)

DeliveryInputs ==
    {<<"https://example.com/hook", <<"payout">>, Some(<<"k">>)>>,
     <<"https://example.com/hook", <<"payout">>, None>>,
     <<"https://example.com/hook", <<"payout">>, Some(<< >>)>>}

DeliveryNext ==
    \/ \E in \in DeliveryInputs :
          registerWebhook(in[1], in[2], in[3], FALSE) /\ UNCHANGED reg
    \/ \E throws \in Throws : triggerEvent("payout", throws)
    \/ \E u \in 1..MaxDeliveries, o \in AttemptOutcomes, throwsS \in Throws, throwsF \in Throws :
          HttpDone(u, o, throwsS, throwsF)
    \/ \E u \in 1..MaxDeliveries : TimerFired(u)

DeliverySpec == Init /\ [][DeliveryNext]_vars

(* The same with one kind of webhook, and fairness: fetch is called with  *)
(* timeout: 30000, so every HTTP call comes to a response or an error,    *)
(* and every setTimeout of delay() fires.                                 *)
FairNext ==
    \/ registerWebhook("https://example.com/hook", <<"payout">>, None, FALSE)
          /\ UNCHANGED reg
    \/ \E throws \in Throws : triggerEvent("payout", throws)
    \/ \E u \in 1..MaxDeliveries, o \in HttpOutcomes, throwsS \in Throws, throwsF \in Throws :
          HttpDone(u, o, throwsS, throwsF)
    \/ \E u \in 1..MaxDeliveries : TimerFired(u)

FairDeliverySpec ==
    /\ Init
    /\ [][FairNext]_vars
    /\ \A u \in 1..MaxDeliveries :
          /\ WF_vars(\E o \in HttpOutcomes, throwsS \in Throws, throwsF \in Throws :
                        HttpDone(u, o, throwsS, throwsF))
          /\ WF_vars(TimerFired(u))

----------------------------------------------------------------------------
(* The two routes of the router that go through the deliveries.           *)

\* the bodies of POST /webhooks/test
TestBodies ==
    {[url |-> "", secret |-> None],
     [url |-> "not-a-url", secret |-> None],
     [url |-> "https://example.com/hook", secret |-> Some(<<"k">>)]}

(* POST /webhooks/test, up to the await of triggerEvent's promise: the    *)
(* temporary webhook is registered for "test" and the event triggered;    *)
(* what registerWebhook or triggerEvent throws (the URL does not parse, a *)
(* listener of webhook:registered or event:triggered throws: throwsR,     *)
(* throwsT) goes to the catch block, which answers 400.                   *)
PostTest(body, throwsR, throwsT) ==
    /\ route.pc # "waiting"
    /\ LET started == [RouteIdle EXCEPT !.name = "POST /test", !.before = webhooks] IN
       IF body.url = "" \/ ~UrlParses(body.url)
       THEN /\ route' = Answer(started, 400,
                               IF body.url = "" THEN "Missing required field: url"
                               ELSE "Invalid webhook URL")
            /\ UNCHANGED <<webhooks, deliveries, units, events, failures, thrown,
                           sig, reg, batch>>
       ELSE /\ Len(webhooks) < MaxWebhooks
            /\ \E id \in generateId(WebhookIds) :
               LET hooks == MapSet(webhooks,
                                [id |-> id, url |-> body.url, events |-> <<"test">>,
                                 secret |-> body.secret, active |-> TRUE])
               IN
               IF throwsR
               THEN /\ webhooks' = hooks
                    /\ thrown' = thrown + 1
                    /\ route' = Answer([started EXCEPT !.id = id], 400, ListenerError)
                    /\ UNCHANGED <<deliveries, units, events, failures, sig, reg, batch>>
               ELSE /\ Triggered(hooks, "test", throwsT)
                    /\ LET e == Len(events')
                           waiting == [started EXCEPT !.id = id, !.event = e,
                                                      !.pc = "waiting"]
                       IN
                       IF events'[e].state = "rejected"
                       THEN /\ webhooks' = hooks
                            /\ route' = Answer(waiting, 400, ListenerError)
                       ELSE IF events'[e].state = "pending"
                       THEN /\ webhooks' = hooks
                            /\ route' = waiting
                       ELSE /\ webhooks' = MapDelete(hooks, id)
                            /\ route' = Answer(waiting, 200, "")

RecordIds(records) == [i \in 1..Len(records) |-> records[i].id]

(* A route that returns the records whether or not the webhook is there. *)
GetWebhookDeliveriesAnyway(id) ==
    /\ route.pc # "waiting"
    /\ route' = [Answer([RouteIdle EXCEPT !.name = "GET /:id/deliveries", !.id = id],
                        200, "")
                 EXCEPT !.data = RecordIds(getDeliveries(deliveries, units, Some(id)))]
    /\ UNCHANGED <<webhooks, deliveries, units, events, failures, thrown, sig, reg, batch>>

(* GET /webhooks/:id/deliveries; the records in the response are written  *)
(* by their ids.                                                          *)
GetWebhookDeliveries(id) ==
    /\ route.pc # "waiting"
    /\ LET asked == [RouteIdle EXCEPT !.name = "GET /:id/deliveries", !.id = id] IN
       route' = IF ~MapHas(webhooks, id)
                THEN Answer(asked, 404, "Webhook not found")
                ELSE [Answer(asked, 200, "")
                      EXCEPT !.data = RecordIds(getDeliveries(deliveries, units, Some(id)))]
    /\ UNCHANGED <<webhooks, deliveries, units, events, failures, thrown, sig, reg, batch>>

\* POST /webhooks/test on a service with webhooks: a request is followed
\* from its arrival to its response, and no other request to the registry
\* is taken while it waits
TestNext ==
    \/ /\ route.pc # "waiting"
       /\ registerWebhook("https://example.com/hook", <<"payout">>, None, FALSE)
       /\ UNCHANGED reg
    \/ \E body \in TestBodies, throwsR \in Throws, throwsT \in Throws :
          PostTest(body, throwsR, throwsT)
    \/ \E u \in 1..MaxDeliveries, o \in HttpOutcomes, throwsS \in Throws, throwsF \in Throws :
          HttpDone(u, o, throwsS, throwsF)
    \/ \E u \in 1..MaxDeliveries : TimerFired(u)

TestSpec == Init /\ [][TestNext]_vars

\* GET /webhooks/:id/deliveries on a service whose webhooks come and go,
\* with destinations that answer
AnsweredOutcomes == {o \in HttpOutcomes : o.kind = "response"}

HistoryNext ==
    \/ registerWebhook("https://example.com/hook", <<"payout">>, None, FALSE)
          /\ UNCHANGED reg
    \/ \E id \in Ids : deleteWebhook(id, FALSE) /\ UNCHANGED reg
    \/ \E throws \in Throws : triggerEvent("payout", throws)
    \/ \E id \in Ids : GetWebhookDeliveries(id)
    \/ \E u \in 1..MaxDeliveries, o \in AnsweredOutcomes, throwsS \in Throws, throwsF \in Throws :
          HttpDone(u, o, throwsS, throwsF)
    \/ \E u \in 1..MaxDeliveries : TimerFired(u)

HistorySpec == Init /\ [][HistoryNext]_vars

----------------------------------------------------------------------------
(* The registry on its own, watched by its callers and listeners.         *)

RegNext ==
    \/ \E in \in RegistryInputs, throws \in Throws :
          CallRegister(in[1], in[2], in[3], throws)
    \/ \E body \in Bodies, throws \in Throws : PostWebhooks(body, throws)
    \/ \E id \in Ids, throws \in Throws : CallDelete(id, throws)
    \/ \E id \in Ids, active \in BOOLEAN, throws \in Throws :
          CallUpdateStatus(id, active, throws)

RegSpec == Init /\ [][RegNext]_vars

----------------------------------------------------------------------------
(* The claims about the registry.                                         *)

IsRegister(call) == call.name \in {"register", "POST /webhooks"}

ValidationMessages == {"Invalid webhook URL", "At least one event type is required"}

Subscription(w) == [id |-> w.id, url |-> w.url, events |-> w.events, secret |-> w.secret]

RegistryIds(map) == {map[i].id : i \in 1..Len(map)}

(* C11: a registration whose URL does not parse or whose event list is    *)
(* empty fails with a validation error (status 400 from the router), and  *)
(* leaves the registry and list() as they were, with no notification.     *)
C11_InvalidRegistrationFails ==
    [][(/\ IsRegister(reg'.call)
        /\ ~UrlParses(reg'.call.url) \/ Len(reg'.call.events) = 0)
       =>
       /\ reg'.call.name = "register" =>
             /\ reg'.result.kind = "error"
             /\ reg'.result.message \in ValidationMessages
       /\ reg'.call.name = "POST /webhooks" => reg'.status = 400
       /\ reg'.result.kind # "value"
       /\ webhooks' = webhooks
       /\ reg'.live = reg.live
       /\ reg'.emitted = << >>
    ]_vars

C11_Witness ==
    /\ reg.call.name = "register"
    /\ reg.call.events = << >>
    /\ reg.result = Rejected("At least one event type is required")
    /\ Len(webhooks) = 1

(* C12: the registry holds exactly the subscriptions that register has   *)
(* returned and that were not deleted since: get(id) gives each of them   *)
(* as it was returned, list() has each once, and list() has nothing else. *)
C12_RegistryHoldsTheRegistered ==
    /\ \A k \in 1..Len(reg.live) :
          /\ MapHas(webhooks, reg.live[k].id)
          /\ Subscription(MapGet(webhooks, reg.live[k].id)) = reg.live[k]
          /\ Cardinality({i \in 1..Len(webhooks) : webhooks[i].id = reg.live[k].id}) = 1
    /\ \A i \in 1..Len(webhooks) :
          \E k \in 1..Len(reg.live) : reg.live[k] = Subscription(webhooks[i])
    /\ Len(webhooks) = Len(reg.live)

(* C13: a successful registration takes an id that no subscription of    *)
(* the registry has, adds the subscription with active = true and leaves  *)
(* the other entries as they were, and emits webhook.registered once,     *)
(* carrying the new subscription.                                         *)
C13_FreshIdStoredAndNotified ==
    [][(IsRegister(reg'.call) /\ reg'.result.kind = "value")
       =>
       LET id == reg'.result.id IN
       /\ id \notin RegistryIds(webhooks)
       /\ \A k \in 1..Len(reg.live) : reg.live[k].id # id
       /\ Len(webhooks') = Len(webhooks) + 1
       /\ \A i \in 1..Len(webhooks) : webhooks'[i] = webhooks[i]
       /\ MapHas(webhooks', id)
       /\ MapGet(webhooks', id).active
       /\ reg'.emitted = <<Notification("webhook:registered", id)>>
    ]_vars

(* C15: delete and setActive on an unknown id return false and absent and *)
(* change and emit nothing; on a known id delete returns true, removes    *)
(* that subscription only and emits webhook.deleted once, and setActive   *)
(* returns the subscription with the flag set and emits webhook.updated.  *)
C15_UnknownIdsAreNoOps ==
    [][LET id == reg'.call.id
           known == MapHas(webhooks, id)
       IN
       /\ reg'.call.name = "delete" =>
             IF known
             THEN /\ reg'.result.kind = "true"
                  /\ webhooks' = SelectSeq(webhooks, LAMBDA w : w.id # id)
                  /\ Len(webhooks') = Len(webhooks) - 1
                  /\ reg'.emitted = <<Notification("webhook:deleted", id)>>
             ELSE /\ reg'.result.kind = "false"
                  /\ webhooks' = webhooks
                  /\ reg'.emitted = << >>
       /\ reg'.call.name = "setActive" =>
             IF known
             THEN /\ reg'.result = Returned(id)
                  /\ MapGet(webhooks', id).active = reg'.call.active
                  /\ reg'.emitted = <<Notification("webhook:updated", id)>>
             ELSE /\ reg'.result.kind = "absent"
                  /\ webhooks' = webhooks
                  /\ reg'.emitted = << >>
    ]_vars

(* C16: in every step, a subscription that stays in the registry keeps    *)
(* its id, url, event list and secret, and keeps its active flag unless   *)
(* the step is a setActive call that names it.                            *)
C16_SubscriptionsAreImmutable ==
    [][\A i \in 1..Len(webhooks) :
          LET w == webhooks[i] IN
          MapHas(webhooks', w.id) =>
             LET v == MapGet(webhooks', w.id) IN
             /\ Subscription(v) = Subscription(w)
             /\ (reg'.call.name # "setActive" \/ reg'.call.id # w.id) => v.active = w.active
    ]_vars

----------------------------------------------------------------------------
(* The claims about the dispatcher and the delivery engine.               *)

Terminal(d) == d.pc \in {"done", "rejected"}

Answered2xx(d) == includes(d.notified, "delivery:success")

Ok200 == [kind |-> "response", status |-> 200]

RECURSIVE Sum(_)
Sum(seq) == IF seq = << >> THEN 0 ELSE Head(seq) + Sum(Tail(seq))

(* C1: triggerEvent never fails because of delivery failures: the promise *)
(* of a triggerEvent call that started deliveries is never rejected,      *)
(* whatever the destinations answer.                                      *)
C1_NeverRejects ==
    \A e \in 1..Len(events) :
        UnitsOf(units, e) # {} => events[e].state # "rejected"

(* C2: a triggerEvent call creates exactly one delivery, with a record in *)
(* the store and an HTTP call, for each webhook that is registered,       *)
(* active and subscribed to the type at the moment of the call, and none  *)
(* for any other webhook.                                                 *)
C2_ExactlyTheMatching ==
    [][Len(events') = Len(events) + 1 =>
        LET e == Len(events')
            new == UnitsOf(units', e)
            matching == {i \in 1..Len(webhooks) :
                            webhooks[i].active
                            /\ includes(webhooks[i].events, events'[e].type)}
        IN  /\ {units'[u].webhookId : u \in new} = {webhooks[i].id : i \in matching}
            /\ Cardinality(new) = Cardinality(matching)
            /\ \A u \in new :
                  /\ units'[u].calls = 1
                  /\ \E i \in 1..Len(deliveries') :
                        deliveries'[i].ref = u /\ deliveries'[i].id = units'[u].id
    ]_vars

(* C4: a delivery whose destination failed on every attempt ends failed,  *)
(* with attempts = 4 and a non-empty error, after four HTTP calls and     *)
(* exactly the waits of 1 s, 5 s and 15 s, in that order (21 s in all).   *)
C4_AllAttemptsFail ==
    \A u \in 1..Len(units) :
        LET d == units[u] IN
        (Terminal(d) /\ d.failedCalls = d.calls) =>
            /\ d.status = "failed"
            /\ d.attempts = 4
            /\ d.calls = 4
            /\ d.error # ""
            /\ d.waited = <<1000, 5000, 15000>>
            /\ Sum(d.waited) = 21000
            /\ d.timer = 0

C4_Witness ==
    \E u \in 1..Len(units) :
        /\ units[u].pc = "done"
        /\ units[u].failedCalls = 4
        /\ units[u].status = "failed"

(* C5: once the destination has answered 2xx the delivery is over: it is  *)
(* a success with attempts = failed attempts + 1, no further attempt is   *)
(* made or waited for, and its error field holds what the failed attempts *)
(* before the success left there.                                         *)
C5_SuccessIsFinal ==
    \A u \in 1..Len(units) :
        LET d == units[u] IN
        Answered2xx(d) =>
            /\ d.status = "success"
            /\ d.pc = "done"
            /\ d.attempts = d.failedCalls + 1
            /\ d.calls = d.attempts
            /\ d.error # ListenerError

(* C6: when the promise of a triggerEvent call has settled, none of the   *)
(* event's deliveries is pending and none of them has an HTTP call or a   *)
(* backoff wait outstanding.                                              *)
C6_SettledAfterAll ==
    \A e \in 1..Len(events) :
        events[e].state # "pending" =>
            \A u \in UnitsOf(units, e) :
                Terminal(units[u]) /\ units[u].status # "pending"

(* C7: deliveries proceed independently: a triggerEvent call leaves every *)
(* delivery it starts with its first HTTP call in flight, and a delivery  *)
(* whose first call is in flight can take a 2xx answer and become a       *)
(* success at once, whatever state the other deliveries are in and        *)
(* without a step of theirs.                                              *)
C7_Independent ==
    /\ [](\A u \in 1..Len(units) :
            (units[u].pc = "fetch" /\ units[u].attempts = 1) =>
                ENABLED (/\ HttpDone(u, Ok200, FALSE, FALSE)
                         /\ units'[u].status = "success"
                         /\ units'[u].pc = "done"
                         /\ \A v \in 1..Len(units) : v # u => units'[v] = units[v]))
    /\ [][\A u \in 1..Len(units') :
            u > Len(units) =>
                units'[u].pc = "fetch" /\ units'[u].calls = 1 /\ units'[u].attempts = 1
       ]_vars

C7_Witness ==
    \E u, v \in 1..Len(units) :
        /\ u # v
        /\ units[u].event = units[v].event
        /\ units[u].status = "success"
        /\ units[u].pc = "done"
        /\ units[u].calls = 1
        /\ units[v].pc = "delay"
        /\ units[v].status = "pending"

(* C8: the store holds exactly one record for each delivery started, under *)
(* an id no other record has, naming the webhook and the event it is for, *)
(* and no two triggerEvent calls have the same event id.                  *)
C8_OneRecordPerPair ==
    /\ \A e1, e2 \in 1..Len(events) : e1 # e2 => events[e1].id # events[e2].id
    /\ \A u1, u2 \in 1..Len(units) : u1 # u2 => units[u1].id # units[u2].id
    /\ Len(deliveries) = Len(units)
    /\ \A u \in 1..Len(units) :
          \E i \in 1..Len(deliveries) :
              /\ deliveries[i].ref = u
              /\ deliveries[i].id = units[u].id
              /\ units[u].eventId = events[units[u].event].id

(* C9: a listener changes nothing: no triggerEvent call is rejected, no   *)
(* delivery's call is, and a delivery makes as many HTTP calls as the     *)
(* destination's answers alone require (one for each failed call and one  *)
(* for the 2xx answer).                                                   *)
C9_ListenersChangeNothing ==
    /\ \A e \in 1..Len(events) : events[e].state # "rejected"
    /\ \A u \in 1..Len(units) :
          LET d == units[u] IN
          /\ d.pc # "rejected"
          /\ Terminal(d) => d.calls = d.failedCalls + (IF Answered2xx(d) THEN 1 ELSE 0)

(* C10: the record of every delivery in the store has its completion time *)
(* set if and only if its status is success or failed.                    *)
C10_CompletedIffTerminal ==
    \A i \in 1..Len(deliveries) :
        LET d == units[deliveries[i].ref] IN
        d.completedAt <=> d.status \in {"success", "failed"}

C10_Witness ==
    \E i, j \in 1..Len(deliveries) :
        /\ units[deliveries[i].ref].status = "success"
        /\ units[deliveries[i].ref].completedAt
        /\ units[deliveries[j].ref].status = "pending"
        /\ ~units[deliveries[j].ref].completedAt

(* C14: no step removes or replaces a record of the store, and a step    *)
(* that deletes a webhook leaves the store and every record as they were: *)
(* getDeliveries(webhookId) returns after it what it returned before.     *)
C14_StoreOnlyGrows ==
    [][/\ \A i \in 1..Len(deliveries) :
             \E j \in 1..Len(deliveries') : deliveries'[j] = deliveries[i]
       /\ Len(webhooks') < Len(webhooks) =>
             /\ deliveries' = deliveries
             /\ \A id \in Ids :
                   getDeliveries(deliveries', units', Some(id))
                       = getDeliveries(deliveries, units, Some(id))
    ]_vars

(* C19: a delivery is pending until its first 2xx answer makes it a       *)
(* success or its 4th failed attempt makes it failed; a success or failed *)
(* delivery keeps its status and starts no HTTP call; attempts is the     *)
(* number of HTTP calls started, within 1..4, and never decreases.        *)
C19_StateMachine ==
    /\ [](\A u \in 1..Len(units) :
            LET d == units[u] IN
            /\ d.status \in {"pending", "success", "failed"}
            /\ d.attempts = d.calls
            /\ d.attempts \in 1..4
            /\ d.status = "success" <=> Answered2xx(d)
            /\ d.status = "failed" => d.failedCalls = 4
            /\ d.status # "pending" => Terminal(d))
    /\ [][\A u \in 1..Len(units) :
            /\ units'[u].attempts >= units[u].attempts
            /\ units[u].status # "pending" =>
                  /\ units'[u].status = units[u].status
                  /\ units'[u].calls = units[u].calls
       ]_vars

(* C20: a delivery waits only after a failed attempt that is not the 4th, *)
(* for the delay of that attempt, and starts attempt n+1 only when the    *)
(* n attempts before it have failed and their delays have been waited     *)
(* for, in order.                                                         *)
C20_SequentialAttempts ==
    \A u \in 1..Len(units) :
        LET d == units[u] IN
        /\ d.pc = "delay" =>
              /\ ~Answered2xx(d)
              /\ d.failedCalls = d.calls
              /\ d.calls < 4
              /\ d.timer = retryDelays[d.calls]
        /\ d.pc = "fetch" => d.failedCalls = d.calls - 1
        /\ d.waited = SubSeq(retryDelays, 1, Len(d.waited))
        /\ Len(d.waited) = d.calls - 1
        /\ Terminal(d) => d.timer = 0

(* C21: every delivery emits exactly one terminal notification, at its    *)
(* terminal transition: none while it is pending, delivery:success and    *)
(* nothing else when it has succeeded, delivery:failed and nothing else   *)
(* when it has failed after its 4th failed attempt; and the exhaustion of *)
(* the retries is never raised to the caller of triggerEvent.             *)
C21_OneTerminalNotification ==
    \A u \in 1..Len(units) :
        LET d == units[u] IN
        /\ Len(d.notified) <= 1
        /\ d.status = "pending" => d.notified = << >>
        /\ d.status = "success" => d.notified = <<"delivery:success">> /\ Terminal(d)
        /\ d.status = "failed" => d.notified = <<"delivery:failed">> /\ d.failedCalls = 4
        /\ d.pc # "rejected"
        /\ events[d.event].state # "rejected"

(* C22: a delivery that has started goes on whatever happens to the       *)
(* registry: its next step (the answer of the HTTP call in flight, the    *)
(* backoff timer) stays possible when its webhook is deleted or           *)
(* deactivated, a registry step changes nothing of it, and the URL and    *)
(* the secret it uses stay those it was started with.                     *)
C22_RegistryLeavesDeliveriesRunning ==
    /\ [](\A u \in 1..Len(units) :
            /\ units[u].pc = "delay" => ENABLED TimerFired(u)
            /\ units[u].pc = "fetch" => ENABLED HttpDone(u, Ok200, FALSE, FALSE))
    /\ [][\A u \in 1..Len(units) :
            /\ units'[u].url = units[u].url
            /\ units'[u].secret = units[u].secret
            /\ webhooks' # webhooks => units'[u] = units[u]
       ]_vars

C22_Witness ==
    \E u \in 1..Len(units) :
        /\ units[u].pc = "fetch"
        /\ units[u].calls = 3
        /\ ~MapHas(webhooks, units[u].webhookId)
        /\ \E v \in 1..Len(units) :
              /\ units[v].status = "success"
              /\ units[v].calls = 2
              /\ MapHas(webhooks, units[v].webhookId)
              /\ ~MapGet(webhooks, units[v].webhookId).active

(* C23: no delivery makes more than 4 HTTP calls, and when every HTTP     *)
(* call comes to a response or an error and every backoff timer fires,    *)
(* every delivery started reaches a terminal status, success or failed,   *)
(* and the promise of every triggerEvent call settles.                    *)
C23_EveryDeliveryTerminates ==
    /\ [](\A u \in 1..Len(units) : units[u].calls <= maxRetries + 1)
    /\ \A u \in 1..MaxDeliveries :
          (u <= Len(units)) ~>
             (/\ u <= Len(units)
              /\ Terminal(units[u])
              /\ units[u].status \in {"success", "failed"})
    /\ \A e \in 1..MaxEvents :
          (e <= Len(events)) ~> (e <= Len(events) /\ events[e].state # "pending")

C23_Witness ==
    \E u \in 1..Len(units) :
        /\ Terminal(units[u])
        /\ units[u].calls = 4
        /\ units[u].status = "success"
        /\ units[u].failedCalls = 3
        /\ events[units[u].event].state = "resolved"
        /\ \E v \in 1..Len(units) :
              /\ v # u
              /\ units[v].status = "success"
              /\ units[v].event = units[u].event

(* C24 as stated: the request of every attempt carries a signature header *)
(* if and only if the webhook was registered with a secret.               *)
C24_SignedIffSecret ==
    \A u \in 1..Len(units) :
        units[u].request.signature # None <=> units[u].secret # None

(* C24, amended: the request of every attempt goes to the URL of the      *)
(* webhook as it was when the delivery started, and carries a signature   *)
(* header if and only if that webhook's secret is a non-empty string; the *)
(* header's value is generateSignature of the body sent and that secret,  *)
(* and verifySignature accepts it.                                        *)
C24_SignedIffSecretNotEmpty ==
    /\ [](\A u \in 1..Len(units) :
            LET d == units[u]
                r == d.request
            IN
            /\ r.url = d.url
            /\ r.body = Payload(d.type)
            /\ r.signature # None <=> (d.secret # None /\ d.secret[1] # << >>)
            /\ r.signature # None =>
                  /\ r.signature[1] = generateSignature(r.body, d.secret[1])
                  /\ verifySignature(r.body, r.signature[1], d.secret[1]) = "true")
    /\ [][\A u \in (Len(units) + 1)..Len(units') :
            \E i \in 1..Len(webhooks) :
                /\ webhooks[i].id = units'[u].webhookId
                /\ webhooks[i].secret = units'[u].secret
                /\ webhooks[i].url = units'[u].url
       ]_vars

C24_Witness ==
    \E u \in 1..Len(units), v \in 1..Len(units) :
        /\ units[u].secret = Some(<<"k">>)
        /\ units[u].request.signature # None
        /\ units[u].calls = 2
        /\ units[v].secret = Some(<< >>)
        /\ units[v].request.signature = None
        /\ units[v].calls = 2

(* C25: an attempt that fails, whatever it came to, leaves its message in *)
(* error ("HTTP <status>: <body>" for a response that is not 2xx) and is  *)
(* retried after the delay of its rank, or ends the delivery as failed    *)
(* when it is the 4th; responseStatus is written only from a response     *)
(* received.                                                              *)
C25_FailuresLeaveTheirDetail ==
    /\ [](\A u \in 1..Len(units) : units[u].failedCalls > 0 => units[u].error # "")
    /\ [][\A u \in 1..Len(units) :
            LET d == units[u]
                d2 == units'[u]
                o == d2.outcome
            IN
            /\ d2.failedCalls # d.failedCalls =>
                  /\ d2.failedCalls = d.failedCalls + 1
                  /\ o.kind \in {"response", "rejected"}
                  /\ o.kind = "response" => o.status \notin 200..299
                  /\ d2.error = IF o.kind = "rejected" THEN "FetchError"
                                ELSE IF o.status = 404 THEN "HTTP 404: body"
                                ELSE "HTTP 500: body"
                  /\ d2.attempts = d.attempts
                  /\ IF d.attempts < 4
                     THEN /\ d2.pc = "delay"
                          /\ d2.timer = retryDelays[d.attempts]
                          /\ d2.status = d.status
                     ELSE /\ d2.status = "failed"
                          /\ Terminal(d2)
            /\ d2.responseStatus # d.responseStatus =>
                  /\ o.kind = "response"
                  /\ d2.responseStatus = o.status
       ]_vars

C25_Witness ==
    \E u \in 1..Len(units), v \in 1..Len(units) :
        /\ units[u].error = "HTTP 404: body"
        /\ units[u].failedCalls = 3
        /\ units[u].pc = "delay"
        /\ units[u].responseStatus = 0
        /\ units[v].error = "FetchError"
        /\ units[v].pc = "delay"

(* C26: a delivery record is written only by its own delivery: a step     *)
(* that changes a record changes no other record, nor the registry, nor   *)
(* the store, and starts no event; the record's id, webhook id and event  *)
(* id never change.                                                       *)
C26_RecordWrittenByItsDelivery ==
    [][\A u \in 1..Len(units) :
          /\ units'[u].id = units[u].id
          /\ units'[u].webhookId = units[u].webhookId
          /\ units'[u].eventId = units[u].eventId
          /\ units'[u] # units[u] =>
                /\ units[u].pc \in {"fetch", "delay"}
                /\ \A v \in 1..Len(units) : v # u => units'[v] = units[v]
                /\ Len(units') = Len(units)
                /\ webhooks' = webhooks
                /\ deliveries' = deliveries
                /\ Len(events') = Len(events)
      ]_vars

C26_Witness ==
    /\ Len(units) = 2
    /\ units[1].status = "failed"
    /\ units[2].status = "success"
    /\ units[2].event = 2
    /\ webhooks = << >>

(* C27: the diagnostic fields are set and never cleared, the error only   *)
(* by a failed attempt and the response status only by the attempt that   *)
(* succeeds: a delivery that has failed has no response status, and an    *)
(* error is that of an HTTP call that failed.                             *)
C27_DiagnosticsSetNeverCleared ==
    /\ [](\A u \in 1..Len(units) :
            LET d == units[u] IN
            /\ d.error # "" =>
                  /\ d.failedCalls > 0
                  /\ \E o \in HttpOutcomes :
                        executeDelivery(o).thrown /\ d.error = ErrorMessage(o)
            /\ d.failedCalls > 0 => d.error # ""
            /\ d.responseStatus # 0 => d.status = "success"
            /\ d.status = "failed" => d.responseStatus = 0)
    /\ [][\A u \in 1..Len(units) :
            /\ units[u].error # "" => units'[u].error # ""
            /\ units[u].responseStatus # 0 => units'[u].responseStatus # 0
       ]_vars

(* C28: the recipients of an event are fixed when triggerEvent is called: *)
(* deliveries are created only in that step, for the event it starts and  *)
(* for webhooks that were registered, active and subscribed at that       *)
(* moment; no later step adds a delivery to an event, and a registry step *)
(* creates no delivery and no record.                                     *)
C28_RecipientsFixedAtTrigger ==
    [][/\ \A e \in 1..Len(events) : UnitsOf(units', e) = UnitsOf(units, e)
       /\ \A u \in (Len(units) + 1)..Len(units') :
             /\ Len(events') = Len(events) + 1
             /\ units'[u].event = Len(events')
             /\ \E i \in 1..Len(webhooks) :
                   /\ webhooks[i].id = units'[u].webhookId
                   /\ webhooks[i].active
                   /\ includes(webhooks[i].events, events'[Len(events')].type)
       /\ webhooks' # webhooks => units' = units /\ deliveries' = deliveries
      ]_vars

C28_Witness ==
    \E e \in 1..Len(events), i \in 1..Len(webhooks) :
        /\ events[e].state = "pending"
        /\ webhooks[i].active
        /\ includes(webhooks[i].events, events[e].type)
        /\ UnitsOf(units, e) # {}
        /\ \A u \in UnitsOf(units, e) : units[u].webhookId # webhooks[i].id


(* C29: POST /webhooks/test leaves the registry as it found it: when the  *)
(* route responds, with success or with an error, the registry holds the  *)
(* subscriptions it held when the request came in.                        *)
C29_TestLeavesRegistryAsItWas ==
    [][(route' # route /\ route'.name = "POST /test" /\ route'.pc = "responded")
          => webhooks' = route'.before
      ]_vars

(* C30: GET /webhooks/:id/deliveries answers 404 "Webhook not found" for  *)
(* an id that is not registered and 200 with the records of the webhook   *)
(* otherwise; deleting a webhook removes none of its records from what    *)
(* getDeliveries(id) returns.                                             *)
C30_DeliveriesOnlyWhileRegistered ==
    /\ [][(route' # route /\ route'.name = "GET /:id/deliveries") =>
            /\ route'.pc = "responded"
            /\ IF MapHas(webhooks, route'.id)
               THEN /\ route'.status = 200
                    /\ route'.data = RecordIds(getDeliveries(deliveries, units, Some(route'.id)))
               ELSE /\ route'.status = 404
                    /\ route'.error = "Webhook not found"
                    /\ route'.data = << >>
       ]_vars
    /\ [][\A id \in Ids :
            (MapHas(webhooks, id) /\ ~MapHas(webhooks', id)) =>
               RecordIds(getDeliveries(deliveries', units', Some(id)))
                  = RecordIds(getDeliveries(deliveries, units, Some(id)))
       ]_vars

C30_Witness ==
    /\ route.name = "GET /:id/deliveries"
    /\ route.status = 404
    /\ ~MapHas(webhooks, route.id)
    /\ getDeliveries(deliveries, units, Some(route.id)) # << >>
    /\ \E id \in Ids : MapHas(webhooks, id)

----------------------------------------------------------------------------
(* The BatchBuilder (src/batch): the operations added, each with the      *)
(* order and mode given or their defaults, and the sorted snapshot.       *)

\* options.order and options.mode: absent, or a value
OrderOptions == {None} \cup {Some(n) : n \in 0..MaxOrder}

ModeOptions == {None, Some("abort"), Some("continue")}

\* the comparator of operationsSnapshot, reversed
CompareReversed(a, b) == IF a.order = b.order THEN 0 ELSE b.order - a.order

\* the comparator of operationsSnapshot
Compare(a, b) == IF a.order = b.order THEN 0 ELSE a.order - b.order

\* Array.prototype.sort is stable: an element goes behind those that do not
\* compare greater than it
RECURSIVE Insert(_, _)
Insert(sorted, x) ==
    IF sorted = << >> THEN <<x>>
    ELSE IF Compare(Head(sorted), x) > 0 THEN <<x>> \o sorted
    ELSE <<Head(sorted)>> \o Insert(Tail(sorted), x)

RECURSIVE Sort(_)
Sort(list) ==
    IF list = << >> THEN << >>
    ELSE Insert(Sort(SubSeq(list, 1, Len(list) - 1)), list[Len(list)])

\* op: the operation object, named by its place among those added
addOperation(order, mode) ==
    /\ Len(batch.operations) < MaxOperations
    /\ batch' = [batch EXCEPT
                    !.operations = Append(@,
                        [op |-> Len(batch.operations) + 1,
                         order |-> IF order # None THEN order[1] ELSE batch.insertCursor,
                         mode |-> IF mode # None THEN mode[1] ELSE "abort"]),
                    !.insertCursor = @ + 1,
                    !.snapshot = << >>,
                    !.taken = FALSE]
    /\ UNCHANGED <<webhooks, deliveries, units, events, failures, thrown, sig, reg, route>>

clear ==
    /\ batch' = [batch EXCEPT !.operations = << >>, !.insertCursor = 0,
                               !.snapshot = << >>, !.taken = FALSE]
    /\ UNCHANGED <<webhooks, deliveries, units, events, failures, thrown, sig, reg, route>>

\* the getter: a sorted copy; batch.snapshot is the array the getter returned
\* if the builder has not been changed since (batch.taken), else empty
operationsSnapshot ==
    /\ batch' = [batch EXCEPT !.snapshot = Sort(batch.operations), !.taken = TRUE]
    /\ UNCHANGED <<webhooks, deliveries, units, events, failures, thrown, sig, reg, route>>

BatchNext ==
    \/ \E order \in OrderOptions, mode \in ModeOptions : addOperation(order, mode)
    \/ clear
    \/ operationsSnapshot

BatchSpec == Init /\ [][BatchNext]_vars

(* C18: the snapshot holds every stored operation once, in non-decreasing *)
(* order, those of equal order as they were added, and taking it leaves   *)
(* the builder's operations and size as they were.                        *)
C18_SnapshotSortedStable ==
    /\ [](batch.taken =>
            LET snap == batch.snapshot
                ops == batch.operations
            IN
            /\ Len(snap) = Len(ops)
            /\ \A i \in 1..Len(ops) :
                  Cardinality({j \in 1..Len(snap) : snap[j] = ops[i]}) = 1
            /\ \A j, k \in 1..Len(snap) :
                  j < k =>
                     /\ snap[j].order <= snap[k].order
                     /\ snap[j].order = snap[k].order => snap[j].op < snap[k].op)
    /\ [][batch'.taken =>
            /\ batch'.operations = batch.operations
            /\ Len(batch'.operations) = Len(batch.operations)
            /\ batch'.insertCursor = batch.insertCursor
       ]_vars

C18_Witness ==
    /\ batch.taken
    /\ Len(batch.snapshot) = 3
    /\ batch.snapshot # batch.operations
    /\ batch.snapshot[2].order = batch.snapshot[3].order
    /\ batch.operations[1].order > batch.operations[2].order

----------------------------------------------------------------------------
(* The signature helpers on their own: one call of verifySignature, with  *)
(* its arguments drawn from the sets above.                               *)

SigInit ==
    /\ webhooks = << >>
    /\ deliveries = << >>
    /\ units = << >>
    /\ events = << >>
    /\ failures = 0
    /\ thrown = 0
    /\ sig \in [payload : Payloads, signature : Signatures, secret : Keys,
                result : {"idle"}]
    /\ reg = RegIdle
    /\ batch = BatchIdle
    /\ route = RouteIdle

VerifyCall ==
    /\ sig.result = "idle"
    /\ sig' = [sig EXCEPT !.result = verifySignature(sig.payload, sig.signature, sig.secret)]
    /\ UNCHANGED <<webhooks, deliveries, units, events, failures, thrown, reg, batch, route>>

SigNext == VerifyCall

SigSpec == SigInit /\ [][SigNext]_vars

----------------------------------------------------------------------------
(* The claims about the signature helpers.                                *)

(* C17: a signature made by generateSignature for a payload and a secret  *)
(* verifies as true with that payload and secret, and as false with any   *)
(* other payload or any other secret.                                     *)
C17_VerifyIsExactInverse ==
    sig.result # "idle" =>
        \A p \in Payloads, s \in Keys :
            sig.signature = generateSignature(p, s) =>
                IF p = sig.payload /\ s = sig.secret
                THEN sig.result = "true"
                ELSE sig.result = "false"

(* C3: verifySignature never throws: it returns a boolean for every       *)
(* signature string, and false whenever the signature is not exactly      *)
(* generateSignature(payload, secret).                                    *)
C3_VerifyNeverThrows ==
    sig.result # "idle" =>
        /\ sig.result \in {"true", "false"}
        /\ sig.signature # generateSignature(sig.payload, sig.secret) => sig.result = "false"

====
